---- MODULE Spec2Model ----
(***************************************************************************)
(* Model of getGeoJSONBBox (src/src/MapView.tsx:751-779, identical copies  *)
(* at src/src/MapView.tsx:297, src/unnamed/part_001:339 and                *)
(* src/unnamed/part_003:884).                                              *)
(*                                                                         *)
(* JavaScript values are tagged records so that the dynamic checks of the  *)
(* code (Array.isArray, typeof === "number", ?. and ??, for..of) are       *)
(* computed on the value and not assumed.                                  *)
(*                                                                         *)
(* The second half models the MapView component (src/src/MapView.tsx       *)
(* lines 344-706 and src/unnamed/part_003 lines 207-825): its React state, *)
(* its effects and the asynchronous load handler of each map instance.     *)
(***************************************************************************)
EXTENDS Integers, Sequences, FiniteSets, TLC

\* ---------------------------------------------------------------- bounds
\* finite coordinate components range over 0..MaxCoord
MaxCoord == 1
\* longest features array drawn from SimpleFeatures
MaxFeatures == 2
\* deepest nesting of a leaf below `coordinates` (3 = MultiPolygon)
MaxDepth == 3
\* most map instances one mounted component creates
MaxMaps == 2

\* ------------------------------------------------------ JavaScript values
Null == [t |-> "null"]
Undefined == [t |-> "undef"]
Bool == [t |-> "bool"]
\* a string of n characters; only its length and iteration matter here
Str(n) == [t |-> "str", n |-> n]
\* a number: finite (k = "fin", value v) or one of NaN, +Infinity, -Infinity
Fin(v) == [t |-> "num", k |-> "fin", v |-> v]
NaN == [t |-> "num", k |-> "nan", v |-> 0]
PosInf == [t |-> "num", k |-> "pinf", v |-> 0]
NegInf == [t |-> "num", k |-> "ninf", v |-> 0]
Arr(items) == [t |-> "arr", items |-> items]
\* a plain object; f maps its own property names to values
EmptyObj == [t |-> "obj", f |-> [n \in {} |-> Undefined]]
Obj(name, val) == [t |-> "obj", f |-> [n \in {name} |-> val]]
\* the array-like object {0: a, 1: b}: indexable, but not an Array
ArrayLike(a, b) == [t |-> "obj", f |-> [n \in {"0", "1"} |-> IF n = "0" THEN a ELSE b]]

IsNullish(v) == v.t \in {"null", "undef"}

\* v.name for a non-nullish v: primitives and arrays have none of the
\* properties features / geometry / coordinates
GetProp(v, name) ==
    IF v.t = "obj" /\ name \in DOMAIN v.f THEN v.f[name] ELSE Undefined

\* v?.name
OptChain(v, name) == IF IsNullish(v) THEN Undefined ELSE GetProp(v, name)

\* a ?? b
NullishCoalesce(a, b) == IF IsNullish(a) THEN b ELSE a

\* Array.isArray(c)
IsArray(c) == c.t = "arr"

\* typeof v === "number": true of NaN and of +-Infinity as well
TypeofNumber(v) == v.t = "num"

\* c[i] (i = 0, 1) for an array c: the element, or undefined past the end
Index(c, i) ==
    IF c.t = "arr" THEN (IF i < Len(c.items) THEN c.items[i + 1] ELSE Undefined)
    ELSE IF c.t = "obj" THEN GetProp(c, IF i = 0 THEN "0" ELSE "1")
    ELSE IF c.t = "str" /\ i < c.n THEN Str(1)
    ELSE Undefined

\* for (const f of v): arrays and strings are iterable, everything else
\* makes for..of throw a TypeError
IsIterable(v) == v.t \in {"arr", "str"}
IterItems(v) == IF v.t = "arr" THEN v.items ELSE [i \in 1..v.n |-> Str(1)]

\* Math.min / Math.max: NaN if either argument is NaN, else by the order
\* -Infinity < finite < +Infinity
NumLess(a, b) ==
    /\ a.k # "nan" /\ b.k # "nan"
    /\ \/ a.k = "ninf" /\ b.k # "ninf"
       \/ b.k = "pinf" /\ a.k # "pinf"
       \/ a.k = "fin" /\ b.k = "fin" /\ a.v < b.v

MathMinLast(a, b) == b
MathMin(a, b) ==
    IF a.k = "nan" \/ b.k = "nan" THEN NaN ELSE IF NumLess(b, a) THEN b ELSE a

MathMaxLast(a, b) == b
MathMax(a, b) ==
    IF a.k = "nan" \/ b.k = "nan" THEN NaN ELSE IF NumLess(a, b) THEN b ELSE a

\* ------------------------------------------------------- getGeoJSONBBox
\* the leaf test of pushCoord
IsLeafCoordNoArrayCheck(c) ==
    c.t \in {"arr", "obj"} /\ TypeofNumber(Index(c, 0)) /\ TypeofNumber(Index(c, 1))
IsLeafCoordExactPair(c) ==
    IsArray(c) /\ Len(c.items) = 2 /\ TypeofNumber(Index(c, 0)) /\ TypeofNumber(Index(c, 1))
IsLeafCoordFirstOnly(c) == IsArray(c) /\ TypeofNumber(Index(c, 0))
IsLeafCoord(c) ==
    IsArray(c) /\ TypeofNumber(Index(c, 0)) /\ TypeofNumber(Index(c, 1))

RECURSIVE pushCoord(_)
RECURSIVE pushEach(_)
\* the coordinates pushCoord(c) appends to coords, in order
pushCoordNoRecursion(c) ==
    IF IsLeafCoord(c) THEN << <<Index(c, 0), Index(c, 1)>> >> ELSE << >>
pushCoord(c) ==
    IF IsLeafCoord(c) THEN << <<Index(c, 0), Index(c, 1)>> >>
    ELSE IF IsArray(c) THEN pushEach(c.items)
    ELSE << >>
\* for (const item of c) pushCoord(item)
pushEach(items) ==
    IF items = << >> THEN << >>
    ELSE pushCoord(Head(items)) \o pushEach(Tail(items))

\* geojson?.features ?? []
FeaturesOfNoDefault(geojson) == OptChain(geojson, "features")
FeaturesOf(geojson) == NullishCoalesce(OptChain(geojson, "features"), Arr(<< >>))

\* f?.geometry?.coordinates
FeatureCoordinates(f) == OptChain(OptChain(f, "geometry"), "coordinates")

\* results
None == [kind |-> "null"]
TypeError == [kind |-> "TypeError"]
Extent(minX, minY, maxX, maxY) ==
    [kind |-> "extent", minX |-> minX, minY |-> minY, maxX |-> maxX, maxY |-> maxY]

\* one round of the min/max loop
Accumulate(e, c) ==
    Extent(MathMin(e.minX, c[1]), MathMin(e.minY, c[2]),
           MathMax(e.maxX, c[1]), MathMax(e.maxY, c[2]))

\* coords after the feature loop has visited every entry of items
RECURSIVE CollectCoords(_)
CollectCoords(items) ==
    IF items = << >> THEN << >>
    ELSE pushCoord(FeatureCoordinates(Head(items))) \o CollectCoords(Tail(items))

\* the min/max loop over the coordinates cs, starting from e
RECURSIVE ReduceCoords(_, _)
ReduceCoords(e, cs) ==
    IF cs = << >> THEN e ELSE ReduceCoords(Accumulate(e, Head(cs)), Tail(cs))

\* the whole function: its return value, or TypeError when for..of throws
getGeoJSONBBox(geojson) ==
    LET fv == FeaturesOf(geojson) IN
    IF ~IsIterable(fv) THEN TypeError
    ELSE LET cs == CollectCoords(IterItems(fv)) IN
         IF Len(cs) = 0 THEN None
         ELSE ReduceCoords(Extent(cs[1][1], cs[1][2], cs[1][1], cs[1][2]), cs)

\* ------------------------------------------------------------- inputs
FinVals == {Fin(v) : v \in 0..MaxCoord}
NonFinite == {NaN, PosInf, NegInf}
FinLeaves == {Arr(<<x, y>>) : x \in FinVals, y \in FinVals}
NonFiniteLeaves ==
    {Arr(<<n, Fin(0)>>) : n \in NonFinite} \cup {Arr(<<Fin(0), n>>) : n \in NonFinite}

\* c wrapped in d one-element arrays
RECURSIVE Wrap(_, _)
Wrap(c, d) == IF d = 0 THEN c ELSE Arr(<<Wrap(c, d - 1)>>)

\* a feature {geometry: {coordinates: c}}
GeoFeature(c) == Obj("geometry", Obj("coordinates", c))

\* null, {}, {geometry: null}, {geometry: {}}, and non-array coordinates
MalformedFeatures ==
    {Null, EmptyObj, Obj("geometry", Null), Obj("geometry", EmptyObj),
     GeoFeature(Str(2)), GeoFeature(Fin(1)), GeoFeature(ArrayLike(Fin(0), Fin(1)))}

SimpleFeatures ==
    {GeoFeature(c) : c \in FinLeaves \cup NonFiniteLeaves} \cup MalformedFeatures

\* arrays that are not well-formed GeoJSON coordinate trees
OddTrees ==
    {Arr(<< >>), Arr(<<Fin(1)>>), Arr(<<Fin(1), Str(1)>>), Arr(<<Str(1), Fin(1)>>),
     Arr(<<Fin(0), Fin(1), Fin(1)>>),
     Arr(<<Fin(0), Fin(0), Arr(<<Fin(1), Fin(1)>>)>>),
     Arr(<<Arr(<<Fin(0), Fin(1)>>), Fin(1), Fin(1)>>),
     Arr(<<Fin(1), Arr(<<Fin(0), Fin(0)>>)>>),
     Arr(<<Null, Arr(<<Fin(0), Fin(1)>>)>>)}

\* well-formed coordinate trees: Point .. MultiPolygon shapes
SingleTrees == {Wrap(l, d) : l \in FinLeaves, d \in 0..MaxDepth}
LineTrees ==
    {Wrap(Arr(<<l1, l2>>), d) : l1 \in FinLeaves, l2 \in FinLeaves, d \in 0..(MaxDepth - 1)}
RingTrees ==
    {Wrap(Arr(<<Arr(<<l1>>), Arr(<<l2>>)>>), d) :
        l1 \in FinLeaves, l2 \in FinLeaves, d \in 0..(MaxDepth - 2)}
DeepTrees == SingleTrees \cup LineTrees \cup RingTrees

FeatureLists ==
    UNION {[1..n -> SimpleFeatures] : n \in 0..MaxFeatures}
    \cup {<<GeoFeature(c)>> : c \in DeepTrees \cup OddTrees}
    \cup {<<GeoFeature(c), GeoFeature(s)>> : c \in DeepTrees, s \in SingleTrees}
    \cup {<<GeoFeature(c), GeoFeature(l)>> : c \in OddTrees, l \in FinLeaves}
    \cup {<<GeoFeature(l), GeoFeature(c)>> : c \in OddTrees, l \in FinLeaves}

\* inputs that are not {features: [...]}
OtherInputs ==
    {Null, Undefined, Fin(1), Bool, Str(2), EmptyObj, Arr(<<GeoFeature(Arr(<<Fin(0), Fin(1)>>))>>)}
    \cup {Obj("features", x) : x \in {Null, Undefined, Fin(1), Bool, Str(2), EmptyObj}}

Inputs == {Obj("features", Arr(fs)) : fs \in FeatureLists} \cup OtherInputs

\* ----------------------------------------------------- the state machine
VARIABLES
    geojson,    \* the argument of the call
    pc,         \* "call", "features", "reduce", "done", "thrown" ("idle": no call)
    features,   \* the sequence for..of iterates
    fi,         \* index of the next feature to visit
    coords,     \* const coords
    ext,        \* minX, minY, maxX, maxY of the min/max loop
    ci,         \* index of the next coordinate of the min/max loop
    result,     \* the return value, Pending until the call ends
    seen        \* the argument and the result of the first call that ended

bboxVars == <<geojson, pc, features, fi, coords, ext, ci, result, seen>>

\* the MapView component
VARIABLES
    variant,          \* which MapView: "MapView.tsx" or "part_003"
    server,           \* what the three fetches answer
    hasToken,         \* VITE_MAPBOX_TOKEN is set
    mounted,          \* the component is mounted
    showCounties,     \* useState(true)
    showSubstations,  \* useState(true)
    riskView,         \* useState(false)
    pending,          \* effects of the last commit that have not run yet, in order
    mapRef,           \* mapRef.current: 0 for null, else the index of a map
    maps              \* every map instance created so far

mapVars ==
    <<variant, server, hasToken, mounted, showCounties, showSubstations, riskView,
      pending, mapRef, maps>>

\* the info panel of the component
VARIABLES
    selectedProps,       \* useState<Props>(null)
    selectedCountyName,  \* useState<string | null>(null)
    isPanelCollapsed,    \* useState(false), part_003
    resizeFx             \* what the last run of the resize effect left behind

panelVars == <<selectedProps, selectedCountyName, isPanelCollapsed, resizeFx>>

vars == <<bboxVars, mapVars, panelVars>>

Pending == [kind |-> "pending"]
NoCall == [kind |-> "nocall"]

\* the resize effect has not run, or returned at if (!map) return
NoResize == [map |-> 0, captured |-> "none", raf |-> "none"]

\* the panel state of the first render
PanelInit ==
    /\ selectedProps = Null
    /\ selectedCountyName = Null
    /\ isPanelCollapsed = FALSE
    /\ resizeFx = NoResize

\* no component exists: the state of the specifications of the function alone
NoMapView ==
    /\ PanelInit
    /\ variant = "none"
    /\ server = [failed |-> "none", counties |-> Null, substations |-> Null, lines |-> Null]
    /\ hasToken = FALSE
    /\ mounted = FALSE
    /\ showCounties = TRUE
    /\ showSubstations = TRUE
    /\ riskView = FALSE
    /\ pending = << >>
    /\ mapRef = 0
    /\ maps = << >>

\* const coords = [] of a call
CarriedCoords == coords
FreshCoords == << >>

Init ==
    /\ geojson \in Inputs
    /\ pc = "call"
    /\ features = << >>
    /\ fi = 1
    /\ coords = << >>
    /\ ext = None
    /\ ci = 1
    /\ result = Pending
    /\ seen = NoCall
    /\ NoMapView

\* const features = geojson?.features ?? []; the for..of starts
ReadFeatures ==
    /\ pc = "call"
    /\ IsIterable(FeaturesOf(geojson))
    /\ features' = IterItems(FeaturesOf(geojson))
    /\ pc' = "features"
    /\ UNCHANGED <<geojson, fi, coords, ext, ci, result, seen, mapVars, panelVars>>

\* for (const f of features) on a value that is not iterable
ThrowNotIterable ==
    /\ pc = "call"
    /\ ~IsIterable(FeaturesOf(geojson))
    /\ pc' = "thrown"
    /\ result' = TypeError
    /\ UNCHANGED <<geojson, features, fi, coords, ext, ci, seen, mapVars, panelVars>>

\* one iteration: pushCoord(f?.geometry?.coordinates)
VisitFeature ==
    /\ pc = "features"
    /\ fi <= Len(features)
    /\ coords' = coords \o pushCoord(FeatureCoordinates(features[fi]))
    /\ fi' = fi + 1
    /\ UNCHANGED <<geojson, pc, features, ext, ci, result, seen, mapVars, panelVars>>

\* if (!coords.length) return null
ReturnNull ==
    /\ pc = "features"
    /\ fi > Len(features)
    /\ Len(coords) = 0
    /\ result' = None
    /\ pc' = "done"
    /\ UNCHANGED <<geojson, features, fi, coords, ext, ci, seen, mapVars, panelVars>>

\* let minX = coords[0][0], minY = coords[0][1], maxX = ..., maxY = ...
StartReduce ==
    /\ pc = "features"
    /\ fi > Len(features)
    /\ Len(coords) > 0
    /\ ext' = Extent(coords[1][1], coords[1][2], coords[1][1], coords[1][2])
    /\ pc' = "reduce"
    /\ UNCHANGED <<geojson, features, fi, coords, ci, result, seen, mapVars, panelVars>>

\* one iteration of for (const [x, y] of coords)
ReduceStep ==
    /\ pc = "reduce"
    /\ ci <= Len(coords)
    /\ ext' = Accumulate(ext, coords[ci])
    /\ ci' = ci + 1
    /\ UNCHANGED <<geojson, pc, features, fi, coords, result, seen, mapVars, panelVars>>

\* return [minX, minY, maxX, maxY]
ReturnExtent ==
    /\ pc = "reduce"
    /\ ci > Len(coords)
    /\ result' = ext
    /\ pc' = "done"
    /\ UNCHANGED <<geojson, features, fi, coords, ext, ci, seen, mapVars, panelVars>>

Next ==
    \/ ReadFeatures
    \/ ThrowNotIterable
    \/ VisitFeature
    \/ ReturnNull
    \/ StartReduce
    \/ ReduceStep
    \/ ReturnExtent

Spec == Init /\ [][Next]_vars

\* inputs of the calls made between two calls on the same input
OtherCallInputs ==
    {Null, Obj("features", Fin(1)),
     Obj("features", Arr(<<GeoFeature(Arr(<<Fin(MaxCoord), Fin(MaxCoord)>>))>>))}

\* the function is called again, on the input of the first call or on another
\* one; every local of the call is created anew
NextCall ==
    /\ pc \in {"done", "thrown"}
    /\ LET first == IF seen = NoCall
                    THEN [kind |-> "call", input |-> geojson, result |-> result]
                    ELSE seen
       IN /\ seen' = first
          /\ geojson' \in {first.input} \cup OtherCallInputs
    /\ pc' = "call"
    /\ features' = << >>
    /\ fi' = 1
    /\ coords' = FreshCoords
    /\ ext' = None
    /\ ci' = 1
    /\ result' = Pending
    /\ UNCHANGED <<mapVars, panelVars>>

NextCalls ==
    \/ Next
    \/ NextCall

SpecCalls == Init /\ [][NextCalls]_vars

\* the stepwise run and the function agree once the call has ended
Returned == pc \in {"done", "thrown"}
RunsAsFunction == Returned => result = getGeoJSONBBox(geojson)

\* ------------------------------------------------------------- claims
\* the comparison x <= y of two numbers: false whenever one of them is NaN
NumLeq(a, b) == a.k # "nan" /\ b.k # "nan" /\ ~NumLess(b, a)
IsFinite(a) == a.t = "num" /\ a.k = "fin"
\* the input is an object whose features field holds an array
HasFeatureArray == geojson.t = "obj" /\ GetProp(geojson, "features").t = "arr"
FeatureArray == GetProp(geojson, "features").items
Doc(fs) == Obj("features", Arr(fs))

\* C1: whenever the call returns an extent, every recorded coordinate (x, y)
\* satisfies minX <= x <= maxX and minY <= y <= maxY.
C1_ExtentContainsCoords ==
    (pc = "done" /\ result.kind = "extent") =>
        \A n \in 1..Len(coords) :
            /\ NumLeq(result.minX, coords[n][1]) /\ NumLeq(coords[n][1], result.maxX)
            /\ NumLeq(result.minY, coords[n][2]) /\ NumLeq(coords[n][2], result.maxY)

\* C2: the returned extent is the smallest enclosing rectangle: each bound is
\* the least (greatest) x or y of the recorded coordinates and is attained.
C2_ExtentIsSmallest ==
    (pc = "done" /\ result.kind = "extent") =>
        /\ \E n \in 1..Len(coords) : coords[n][1] = result.minX
        /\ \E n \in 1..Len(coords) : coords[n][2] = result.minY
        /\ \E n \in 1..Len(coords) : coords[n][1] = result.maxX
        /\ \E n \in 1..Len(coords) : coords[n][2] = result.maxY
        /\ \A n \in 1..Len(coords) :
            /\ NumLeq(result.minX, coords[n][1]) /\ NumLeq(coords[n][1], result.maxX)
            /\ NumLeq(result.minY, coords[n][2]) /\ NumLeq(coords[n][2], result.maxY)

\* the walk of the specification: a leaf Coordinate is a sequence whose first
\* two entries are finite numbers; other sequences are descended into
RECURSIVE SpecLeafCount(_)
RECURSIVE SpecLeafCountEach(_)
SpecLeafCount(c) ==
    IF c.t # "arr" THEN 0
    ELSE IF Len(c.items) >= 2 /\ IsFinite(c.items[1]) /\ IsFinite(c.items[2]) THEN 1
    ELSE SpecLeafCountEach(c.items)
SpecLeafCountEach(items) ==
    IF items = << >> THEN 0 ELSE SpecLeafCount(Head(items)) + SpecLeafCountEach(Tail(items))
\* the coordinate tree of a feature, Undefined where a field is missing
SpecTreeOf(f) ==
    IF f.t = "obj" /\ "geometry" \in DOMAIN f.f /\ f.f["geometry"].t = "obj"
       /\ "coordinates" \in DOMAIN f.f["geometry"].f
    THEN f.f["geometry"].f["coordinates"] ELSE Undefined
RECURSIVE SpecLeavesIn(_)
SpecLeavesIn(fs) ==
    IF fs = << >> THEN 0 ELSE SpecLeafCount(SpecTreeOf(Head(fs))) + SpecLeavesIn(Tail(fs))
SpecLeavesOfInput == IF HasFeatureArray THEN SpecLeavesIn(FeatureArray) ELSE 0

\* C3: the call returns None if and only if no leaf coordinate is reachable
\* in any feature; with at least one leaf the result is an extent.
C3_NoneIffNoLeaf ==
    Returned =>
        /\ (result = None) <=> (SpecLeavesOfInput = 0)
        /\ (SpecLeavesOfInput > 0) => result.kind = "extent"

\* the features field is present and is neither an array nor a string
FeaturesNotIterable ==
    /\ geojson.t = "obj" /\ "features" \in DOMAIN geojson.f
    /\ geojson.f["features"].t \in {"num", "bool", "obj"}

\* C4: a features field that is present but not iterable gives zero feature
\* iterations and None, and the call raises an error for no input.
C4_NeverFails ==
    /\ pc # "thrown"
    /\ (Returned /\ FeaturesNotIterable) => (result = None /\ fi = 1)

\* a feature that is null, has geometry null, has no geometry field, has no
\* coordinates field or has coordinates that are not an array
C5_Malformed(f) ==
    \/ f = Null
    \/ /\ f.t = "obj"
       /\ \/ "geometry" \notin DOMAIN f.f
          \/ f.f["geometry"] = Null
          \/ /\ f.f["geometry"].t = "obj"
             /\ \/ "coordinates" \notin DOMAIN f.f["geometry"].f
                \/ f.f["geometry"].f["coordinates"].t # "arr"
RECURSIVE C5_WellFormedOnly(_)
C5_WellFormedOnly(fs) ==
    IF fs = << >> THEN << >>
    ELSE (IF C5_Malformed(Head(fs)) THEN << >> ELSE <<Head(fs)>>)
         \o C5_WellFormedOnly(Tail(fs))

\* C5: malformed features contribute no coordinate and raise no error: the
\* result is the one of the remaining features alone.
C5_MalformedFeaturesSkipped ==
    (Returned /\ HasFeatureArray) =>
        /\ pc = "done"
        /\ result = getGeoJSONBBox(Doc(C5_WellFormedOnly(FeatureArray)))
        /\ (\A n \in 1..Len(FeatureArray) : C5_Malformed(FeatureArray[n])) => result = None
C5_Witness ==
    /\ pc = "done" /\ HasFeatureArray /\ result.kind = "extent"
    /\ \E n \in 1..Len(FeatureArray) : C5_Malformed(FeatureArray[n])
    /\ \E n \in 1..Len(FeatureArray) : ~C5_Malformed(FeatureArray[n])

\* C6: a sequence whose first two entries are numbers of which one is not
\* finite is not recorded and changes no bound of the extent.
C6_NonFiniteNotRecorded ==
    /\ \A n \in 1..Len(coords) : IsFinite(coords[n][1]) /\ IsFinite(coords[n][2])
    /\ (pc = "done" /\ result.kind = "extent") =>
        /\ IsFinite(result.minX) /\ IsFinite(result.minY)
        /\ IsFinite(result.maxX) /\ IsFinite(result.maxY)

\* C7: the calls on null, on {} and on {features: []} each return None
\* without an error.
C7_EmptyInputsGiveNone ==
    (Returned /\ geojson \in {Null, EmptyObj, Doc(<< >>)}) => (pc = "done" /\ result = None)
C7_Witness == pc = "done" /\ geojson = Null /\ result = None

\* every reordering of the sequence q
Reorderings(q) ==
    {[n \in 1..Len(q) |-> q[p[n]]] : p \in Permutations(1..Len(q))}
\* a sequence whose first two entries are numbers
C8_LooksLeaf(c) ==
    c.t = "arr" /\ Len(c.items) >= 2 /\ c.items[1].t = "num" /\ c.items[2].t = "num"
\* the trees got from c by reordering the elements inside its non-leaf
\* sequences, at every level; with keepShape only the reorderings that leave
\* the reordered sequence a non-leaf
RECURSIVE C8_Trees(_, _)
RECURSIVE C8_TreeSeqs(_, _)
C8_Trees(c, keepShape) ==
    IF c.t # "arr" \/ C8_LooksLeaf(c) THEN {c}
    ELSE {t \in {Arr(r) : r \in UNION {Reorderings(q) : q \in C8_TreeSeqs(c.items, keepShape)}} :
            keepShape => ~C8_LooksLeaf(t)}
C8_TreeSeqs(items, keepShape) ==
    IF items = << >> THEN {<< >>}
    ELSE {<<h>> \o t : h \in C8_Trees(Head(items), keepShape),
                       t \in C8_TreeSeqs(Tail(items), keepShape)}
C8_Features(f, keepShape) ==
    IF SpecTreeOf(f).t = "arr"
    THEN {GeoFeature(c) : c \in C8_Trees(SpecTreeOf(f), keepShape)}
    ELSE {f}
RECURSIVE C8_FeatureSeqs(_, _)
C8_FeatureSeqs(fs, keepShape) ==
    IF fs = << >> THEN {<< >>}
    ELSE {<<h>> \o t : h \in C8_Features(Head(fs), keepShape),
                       t \in C8_FeatureSeqs(Tail(fs), keepShape)}
C8_Docs(keepShape) ==
    {Doc(r) : r \in UNION {Reorderings(q) : q \in C8_FeatureSeqs(FeatureArray, keepShape)}}

\* C8 as stated: every permutation of the features array and of the elements
\* inside any non-leaf coordinate sequence yields the same extent or None.
C8_AnyPermutation ==
    (pc = "done" /\ HasFeatureArray) =>
        \A d \in C8_Docs(FALSE) : getGeoJSONBBox(d) = result

\* C8 as amended: every permutation of the features array, and of the
\* elements inside a non-leaf coordinate sequence as long as the reordered
\* sequence does not start with two numbers, yields the same extent or None.
C8_ShapeKeepingPermutation ==
    (pc = "done" /\ HasFeatureArray) =>
        \A d \in C8_Docs(TRUE) : getGeoJSONBBox(d) = result
C8_Witness ==
    /\ pc = "done" /\ HasFeatureArray /\ Len(FeatureArray) >= 2
    /\ result.kind = "extent" /\ result.minX # result.maxX
    /\ Cardinality(C8_Docs(TRUE)) >= 4

\* the element-wise merge of two results, None being its identity; the
\* lesser / greater of two numbers is NaN when one of them is NaN
C9_Lesser(a, b) == IF a = NaN \/ b = NaN THEN NaN ELSE IF NumLeq(a, b) THEN a ELSE b
C9_Greater(a, b) == IF a = NaN \/ b = NaN THEN NaN ELSE IF NumLeq(a, b) THEN b ELSE a
C9_Merge(r1, r2) ==
    IF r1 = None THEN r2
    ELSE IF r2 = None THEN r1
    ELSE Extent(C9_Lesser(r1.minX, r2.minX), C9_Lesser(r1.minY, r2.minY),
                C9_Greater(r1.maxX, r2.maxX), C9_Greater(r1.maxY, r2.maxY))
\* the entries of fs whose index is (keep) or is not (~keep) in S, in order
RECURSIVE C9_Select(_, _, _, _)
C9_Select(fs, S, keep, n) ==
    IF n > Len(fs) THEN << >>
    ELSE (IF (n \in S) = keep THEN <<fs[n]>> ELSE << >>) \o C9_Select(fs, S, keep, n + 1)

\* C9: for every split of the features into two parts A and B the result
\* over the whole list is the element-wise merge of the results over A and B.
C9_PartitionMerge ==
    (pc = "done" /\ HasFeatureArray) =>
        \A S \in SUBSET (1..Len(FeatureArray)) :
            result = C9_Merge(getGeoJSONBBox(Doc(C9_Select(FeatureArray, S, TRUE, 1))),
                              getGeoJSONBBox(Doc(C9_Select(FeatureArray, S, FALSE, 1))))
C9_Witness ==
    /\ pc = "done" /\ HasFeatureArray /\ Len(FeatureArray) = 2
    /\ result.kind = "extent"
    /\ getGeoJSONBBox(Doc(<<FeatureArray[1]>>)).kind = "extent"
    /\ getGeoJSONBBox(Doc(<<FeatureArray[2]>>)).kind = "extent"
    /\ getGeoJSONBBox(Doc(<<FeatureArray[1]>>)) # result
    /\ getGeoJSONBBox(Doc(<<FeatureArray[2]>>)) # result

\* the nesting depth of the leaves of a coordinate tree, read along its
\* first entries: 0 Point, 1 LineString, 2 Polygon, 3 MultiPolygon
RECURSIVE C10_Depth(_)
C10_Depth(c) ==
    IF c.t = "arr" /\ Len(c.items) > 0 /\ c.items[1].t = "arr"
    THEN 1 + C10_Depth(c.items[1]) ELSE 0
\* c is a tree all of whose leaves are number pairs at depth d
RECURSIVE C10_WellFormed(_, _)
C10_WellFormed(c, d) ==
    /\ c.t = "arr"
    /\ IF d = 0 THEN Len(c.items) = 2 /\ c.items[1].t = "num" /\ c.items[2].t = "num"
       ELSE Len(c.items) > 0 /\ \A n \in 1..Len(c.items) : C10_WellFormed(c.items[n], d - 1)
\* the leaves of such a tree, one Point feature each
RECURSIVE C10_Points(_, _)
RECURSIVE C10_PointsEach(_, _)
C10_Points(c, d) ==
    IF d = 0 THEN <<GeoFeature(c)>> ELSE C10_PointsEach(c.items, d - 1)
C10_PointsEach(items, d) ==
    IF items = << >> THEN << >>
    ELSE C10_Points(Head(items), d) \o C10_PointsEach(Tail(items), d)
RECURSIVE C10_Flatten(_)
C10_Flatten(fs) ==
    IF fs = << >> THEN << >>
    ELSE C10_Points(SpecTreeOf(Head(fs)), C10_Depth(SpecTreeOf(Head(fs))))
         \o C10_Flatten(Tail(fs))
C10_AllWellFormed ==
    /\ HasFeatureArray
    /\ \A n \in 1..Len(FeatureArray) :
        C10_WellFormed(SpecTreeOf(FeatureArray[n]), C10_Depth(SpecTreeOf(FeatureArray[n])))

\* C10: a leaf contributes the same at every nesting depth: the result over
\* features of any depths is the result over their leaves taken as Points,
\* and every leaf is recorded.
C10_DepthIndependent ==
    (pc = "done" /\ C10_AllWellFormed) =>
        /\ result = getGeoJSONBBox(Doc(C10_Flatten(FeatureArray)))
        /\ Len(coords) = Len(C10_Flatten(FeatureArray))
C10_Witness ==
    /\ pc = "done" /\ C10_AllWellFormed /\ Len(FeatureArray) = 2
    /\ C10_Depth(SpecTreeOf(FeatureArray[1])) = 1
    /\ C10_Depth(SpecTreeOf(FeatureArray[2])) = 3
    /\ Len(coords) = 3
    /\ result.kind = "extent" /\ result.minX # result.maxX /\ result.minY # result.maxY

\* c with every sequence that starts with two numbers cut to these two
RECURSIVE C11_Cut(_)
C11_Cut(c) ==
    IF c.t # "arr" THEN c
    ELSE IF Len(c.items) >= 2 /\ c.items[1].t = "num" /\ c.items[2].t = "num"
    THEN Arr(<<c.items[1], c.items[2]>>)
    ELSE Arr([n \in 1..Len(c.items) |-> C11_Cut(c.items[n])])
C11_CutFeature(f) ==
    IF SpecTreeOf(f).t = "arr" THEN GeoFeature(C11_Cut(SpecTreeOf(f))) ELSE f
\* a tree whose top sequence starts with two numbers and goes on after them
C11_LongLeaf(c) ==
    c.t = "arr" /\ Len(c.items) >= 3 /\ c.items[1].t = "num" /\ c.items[2].t = "num"

\* C11: a sequence whose first two entries are numbers is recorded as
\* (entry0, entry1) whatever its length; its later entries are never descended
\* into and never change the result.
C11_LeafByFirstTwo ==
    (pc = "done" /\ HasFeatureArray) =>
        /\ result =
            getGeoJSONBBox(Doc([n \in 1..Len(FeatureArray) |-> C11_CutFeature(FeatureArray[n])]))
        /\ (Len(FeatureArray) = 1 /\ C11_LongLeaf(SpecTreeOf(FeatureArray[1]))) =>
            coords = << <<SpecTreeOf(FeatureArray[1]).items[1],
                          SpecTreeOf(FeatureArray[1]).items[2]>> >>
C11_Witness ==
    /\ pc = "done" /\ HasFeatureArray /\ Len(FeatureArray) = 1
    /\ C11_LongLeaf(SpecTreeOf(FeatureArray[1]))
    /\ SpecTreeOf(FeatureArray[1]).items[3].t = "arr"
    /\ result.kind = "extent"

\* C12: an input with exactly one leaf coordinate (x, y) yields the zero-area
\* extent (x, y, x, y).
C12_SingleLeafExtent ==
    (Returned /\ SpecLeavesOfInput = 1) =>
        /\ result.kind = "extent"
        /\ result.minX = result.maxX /\ result.minY = result.maxY
        /\ IsFinite(result.minX) /\ IsFinite(result.minY)

\* a sequence with fewer than two leading numbers and no nested sequence
C13_ShortSequence(c) ==
    /\ c.t = "arr"
    /\ \A n \in 1..Len(c.items) : c.items[n].t # "arr"
    /\ ~(Len(c.items) >= 2 /\ c.items[1].t = "num" /\ c.items[2].t = "num")
RECURSIVE C13_Without(_)
C13_Without(fs) ==
    IF fs = << >> THEN << >>
    ELSE (IF C13_ShortSequence(SpecTreeOf(Head(fs))) THEN << >> ELSE <<Head(fs)>>)
         \o C13_Without(Tail(fs))

\* C13: a sequence [x], or any sequence with fewer than two leading numbers
\* and no nested sequence, is no leaf: it records nothing and raises no error.
C13_ShortSequenceDropped ==
    /\ (pc = "features" /\ HasFeatureArray
        /\ \A n \in 1..(fi - 1) : C13_ShortSequence(SpecTreeOf(FeatureArray[n])))
           => coords = << >>
    /\ (Returned /\ HasFeatureArray) =>
        /\ pc = "done"
        /\ result = getGeoJSONBBox(Doc(C13_Without(FeatureArray)))
C13_Witness ==
    /\ pc = "done" /\ HasFeatureArray /\ Len(FeatureArray) = 2
    /\ SpecTreeOf(FeatureArray[1]) = Arr(<<Fin(1)>>)
    /\ result.kind = "extent"

\* C14: the function is pure: a call on the input of an earlier call returns
\* what that call returned, whatever calls were made in between; a call
\* leaves its input as it is and starts from no state of an earlier call.
C14_ReturnsSame ==
    /\ (Returned /\ seen # NoCall /\ geojson = seen.input) => result = seen.result
    /\ (pc = "call") => (coords = << >> /\ features = << >> /\ fi = 1 /\ ci = 1)
C14_Pure ==
    /\ []C14_ReturnsSame
    /\ [][(pc # "done" /\ pc # "thrown") => geojson' = geojson]_vars
C14_Witness ==
    /\ pc = "done" /\ seen # NoCall /\ geojson = seen.input
    /\ geojson \notin OtherCallInputs
    /\ result.kind = "extent" /\ result = seen.result

\* ================================================================ MapView
\* the dependency array of the map-initialization effect
InitDeps ==
    IF variant = "part_003" THEN {"showCounties", "showSubstations"} ELSE {}

\* const SUBSTATION_DEFAULT, as the paint of the two substation layers
SUBSTATION_DEFAULT ==
    [radius |-> "5", color |-> "#7720f1", opacity |-> "0.75",
     glowRadius |-> "16", glowColor |-> "#ac4ae1", glowOpacity |-> "0.18", glowBlur |-> "0.8",
     strokeColor |-> "#FFFFFF", strokeWidth |-> "2", strokeOpacity |-> "0.9"]

\* the paint the two addLayer calls give substations-points / substations-glow
AddedPaint == SUBSTATION_DEFAULT

\* the setPaintProperty calls of the sync effect, on the paint p
RiskPaint(p) ==
    [p EXCEPT !.radius = "interpolate criticality 1:6 5:12",
              !.color = "interpolate criticality 1:#5DADE2 3:#BB8FCE 5:#E74C3C",
              !.opacity = "0.85",
              !.glowRadius = "interpolate criticality 1:12 5:22",
              !.glowOpacity = "0.25",
              !.glowColor = SUBSTATION_DEFAULT.glowColor]
\* part_001: the same two branches, with literals of their own
Part001RiskPaint(p) ==
    [p EXCEPT !.radius = "interpolate criticality 1:6 5:12",
              !.color = "interpolate criticality 1:#5DADE2 3:#BB8FCE 5:#E74C3C",
              !.glowRadius = "interpolate criticality 1:12 5:22",
              !.glowOpacity = "0.25"]
Part001DefaultPaint(p) ==
    [p EXCEPT !.radius = "7",
              !.color = "#7FB3D5",
              !.glowRadius = "16",
              !.glowOpacity = "0.18"]

DefaultPaintMainOnly(p) ==
    [p EXCEPT !.radius = SUBSTATION_DEFAULT.radius,
              !.color = SUBSTATION_DEFAULT.color,
              !.opacity = SUBSTATION_DEFAULT.opacity]
DefaultPaint(p) ==
    [p EXCEPT !.radius = SUBSTATION_DEFAULT.radius,
              !.color = SUBSTATION_DEFAULT.color,
              !.opacity = SUBSTATION_DEFAULT.opacity,
              !.glowRadius = SUBSTATION_DEFAULT.glowRadius,
              !.glowColor = SUBSTATION_DEFAULT.glowColor,
              !.glowOpacity = SUBSTATION_DEFAULT.glowOpacity,
              !.glowBlur = SUBSTATION_DEFAULT.glowBlur]

LayerIds ==
    {"counties-fill", "counties-outline", "transmission-lines",
     "substations-glow", "substations-points"}

NoFit == [kind |-> "nofit"]

\* the three fetches, in the order of the array given to Promise.all
Fetched == <<"counties", "substations", "lines">>
\* res.json() of the response of a URL
Body(u) ==
    IF u = "counties" THEN server.counties
    ELSE IF u = "substations" THEN server.substations
    ELSE server.lines
\* Promise.all: the responses by the position of their fetch, whatever the
\* order they arrived in
PromiseAllByArrival(arrived) == arrived
PromiseAll(arrived) ==
    [p \in 1..Len(Fetched) |-> CHOOSE u \in {arrived[k] : k \in 1..Len(arrived)} : u = Fetched[p]]
\* the three if (!res.ok) throw: where the handler goes next
OkChecksCountiesOnly(res) == IF server.failed = res[1] THEN "failed" ELSE "parsing"
OkChecks(res) ==
    IF \E p \in 1..Len(res) : server.failed = res[p] THEN "failed" ELSE "parsing"

NoSources == [s \in {"counties", "transmission-lines", "substations"} |-> Undefined]

\* new mapboxgl.Map(...) with its load handler, which closes over the
\* showCounties and showSubstations of the render that runs the effect
NewMap(sc, ss) ==
    [removed |-> FALSE,
     cleanup |-> TRUE,           \* the effect's cleanup has not run yet
     hpc |-> "created",          \* "created", "fetching", "parsing", "loaded", "failed"
     cShowCounties |-> sc,
     cShowSubstations |-> ss,
     arrived |-> << >>,          \* the fetched URLs in the order their responses arrived
     responses |-> << >>,        \* [countiesRes, substationsRes, linesRes] of Promise.all
     sources |-> NoSources,      \* the data given to addSource, by source id
     fit |-> NoFit,              \* the bounds given to fitBounds
     view |-> "start",           \* center, zoom, bearing and pitch: "start", "fit", "moved"
     listeners |-> << >>,        \* the view each registered restoreCenter restores
     layers |-> [l \in LayerIds |-> "absent"],   \* "absent", "visible", "none"
     paint |-> AddedPaint,
     usedRemoved |-> FALSE]      \* a map method was called after map.remove()

\* showX ? "visible" : "none"
Visibility(show) == IF show THEN "visible" ELSE "none"

\* map.getLayer(id)
GetLayer(m, id) == m.layers[id] # "absent"

\* const bbox = countiesBbox ?? substationsBbox
ChooseBBoxNoFallback(countiesBbox, substationsBbox) == countiesBbox
ChooseBBoxSubstationsFirst(countiesBbox, substationsBbox) ==
    IF substationsBbox = None THEN countiesBbox ELSE substationsBbox
ChooseBBox(countiesBbox, substationsBbox) ==
    IF countiesBbox = None THEN substationsBbox ELSE countiesBbox

\* the body of the sync effect on the map m, for the rendered sc, ss, rv
ApplyUiState(m, sc, ss, rv) ==
    LET m1 == IF GetLayer(m, "counties-fill") /\ GetLayer(m, "counties-outline")
              THEN [m EXCEPT !.layers["counties-fill"] = Visibility(sc),
                             !.layers["counties-outline"] = Visibility(sc)]
              ELSE m
    IN IF ~GetLayer(m1, "substations-points") \/ ~GetLayer(m1, "substations-glow") THEN m1
       ELSE [m1 EXCEPT !.layers["substations-points"] = Visibility(ss),
                       !.layers["substations-glow"] = Visibility(ss),
                       !.paint = IF variant = "part_001"
                                 THEN (IF rv THEN Part001RiskPaint(@) ELSE Part001DefaultPaint(@))
                                 ELSE (IF rv THEN RiskPaint(@) ELSE DefaultPaint(@))]

\* the layers the load handler adds and the visibility it then sets from the
\* showCounties / showSubstations it closed over
AddLayers(m) ==
    [m EXCEPT !.layers = [l \in LayerIds |->
                            IF l \in {"counties-fill", "counties-outline"}
                            THEN Visibility(m.cShowCounties)
                            ELSE IF l \in {"substations-points", "substations-glow"}
                            THEN Visibility(m.cShowSubstations)
                            ELSE "visible"],
              !.paint = AddedPaint,
              !.sources = [s \in DOMAIN NoSources |->
                             IF s = "counties" THEN Body(m.responses[1])
                             ELSE IF s = "substations" THEN Body(m.responses[2])
                             ELSE Body(m.responses[3])],
              !.hpc = "loaded"]

\* if (!showSubstations && riskView) setRiskView(false): the next riskView
RiskViewKept(ss, rv) == rv
RiskViewAfterEffect(ss, rv) == IF ~ss /\ rv THEN FALSE ELSE rv

\* ------------------------------------------------ what the fetches answer
DocNone == Obj("features", Arr(<< >>))
DocA == Obj("features", Arr(<<GeoFeature(Arr(<<Fin(0), Fin(0)>>))>>))
DocB == Obj("features", Arr(<<GeoFeature(Arr(<<Fin(1), Fin(1)>>))>>))
DocNotIterable == Obj("features", Fin(1))
DocNaN == Obj("features", Arr(<<GeoFeature(Arr(<<NaN, Fin(0)>>))>>))

Servers ==
    {[failed |-> "none", counties |-> c, substations |-> s, lines |-> l] :
        c \in {DocNone, DocA, DocNotIterable, DocNaN},
        s \in {DocNone, DocB, DocNotIterable},
        l \in {DocNone, DocA}}
    \cup {[failed |-> x, counties |-> DocA, substations |-> DocB, lines |-> DocNone] :
            x \in {"counties", "substations", "lines"}}

\* the function alone is not running
NoBBoxCall ==
    /\ geojson = Null
    /\ pc = "idle"
    /\ features = << >>
    /\ fi = 1
    /\ coords = << >>
    /\ ext = None
    /\ ci = 1
    /\ result = Pending
    /\ seen = NoCall

\* an effect of a commit, with the state of the render it belongs to
Effect(e, sc, ss, rv) == [e |-> e, sc |-> sc, ss |-> ss, rv |-> rv]

\* the effects a commit runs when the state names in changed differ from the
\* previous render: cleanups first, then the effect bodies in hook order
EffectsOf(changed, sc, ss, rv) ==
    (IF "isPanelCollapsed" \in changed THEN <<Effect("resizeCleanup", sc, ss, rv)>> ELSE << >>)
    \o (IF changed \cap InitDeps # {} THEN <<Effect("cleanup", sc, ss, rv)>> ELSE << >>)
    \o (IF changed \cap {"showSubstations", "riskView"} # {}
        THEN <<Effect("risk", sc, ss, rv)>> ELSE << >>)
    \o (IF "isPanelCollapsed" \in changed THEN <<Effect("resize", sc, ss, rv)>> ELSE << >>)
    \o (IF changed \cap {"showSubstations", "riskView", "showCounties"} # {}
        THEN <<Effect("sync", sc, ss, rv)>> ELSE << >>)
    \o (IF changed \cap InitDeps # {} THEN <<Effect("init", sc, ss, rv)>> ELSE << >>)

\* the component after its first render: every effect is still to run
MapInit ==
    /\ NoBBoxCall
    /\ PanelInit
    /\ variant \in {"MapView.tsx", "part_003"}
    /\ server \in Servers
    /\ hasToken \in BOOLEAN
    /\ mounted = TRUE
    /\ showCounties = TRUE
    /\ showSubstations = TRUE
    /\ riskView = FALSE
    /\ pending = <<Effect("risk", TRUE, TRUE, FALSE), Effect("sync", TRUE, TRUE, FALSE),
                   Effect("init", TRUE, TRUE, FALSE)>>
    /\ mapRef = 0
    /\ maps = << >>

\* ------------------------------------------------------------ effects
NextEffect(e) == mounted /\ pending # << >> /\ Head(pending).e = e

\* useEffect(() => { if (!showSubstations && riskView) setRiskView(false) })
\* the set state is rendered, and its effects run, after this commit's effects
RiskViewEffect ==
    /\ NextEffect("risk")
    /\ LET h == Head(pending)
           rv == RiskViewAfterEffect(h.ss, h.rv)
       IN /\ riskView' = IF rv # h.rv THEN rv ELSE riskView
          /\ pending' = Tail(pending)
                \o (IF rv # h.rv THEN EffectsOf({"riskView"}, showCounties, showSubstations, rv)
                    ELSE << >>)
    /\ UNCHANGED <<variant, server, hasToken, mounted, showCounties, showSubstations,
                   mapRef, maps, bboxVars, panelVars>>

\* the effect that applies showCounties, showSubstations and riskView to the map
SyncEffect ==
    /\ NextEffect("sync")
    /\ LET h == Head(pending) IN
       maps' = IF mapRef = 0 THEN maps
               ELSE [maps EXCEPT ![mapRef] = ApplyUiState(@, h.sc, h.ss, h.rv)]
    /\ pending' = Tail(pending)
    /\ UNCHANGED <<variant, server, hasToken, mounted, showCounties, showSubstations,
                   riskView, mapRef, bboxVars, panelVars>>

\* the map-initialization effect: token check, mapRef check, new mapboxgl.Map
InitEffect ==
    /\ NextEffect("init")
    /\ LET h == Head(pending) IN
       IF ~hasToken \/ mapRef # 0
       THEN UNCHANGED <<maps, mapRef>>
       ELSE /\ maps' = Append(maps, NewMap(h.sc, h.ss))
            /\ mapRef' = Len(maps) + 1
    /\ pending' = Tail(pending)
    /\ UNCHANGED <<variant, server, hasToken, mounted, showCounties, showSubstations,
                   riskView, bboxVars, panelVars>>

\* return () => { map.remove(); mapRef.current = null; } of the effect run
\* that created a map
RunCleanupNoRemove(ms) ==
    [i \in 1..Len(ms) |-> [ms[i] EXCEPT !.cleanup = FALSE]]
RunCleanup(ms) ==
    [i \in 1..Len(ms) |->
        IF ms[i].cleanup THEN [ms[i] EXCEPT !.removed = TRUE, !.cleanup = FALSE] ELSE ms[i]]
HasCleanup == \E i \in 1..Len(maps) : maps[i].cleanup

InitCleanup ==
    /\ NextEffect("cleanup")
    /\ maps' = RunCleanup(maps)
    /\ mapRef' = IF HasCleanup THEN 0 ELSE mapRef
    /\ pending' = Tail(pending)
    /\ UNCHANGED <<variant, server, hasToken, mounted, showCounties, showSubstations,
                   riskView, bboxVars, panelVars>>

\* ------------------------------------------------------------- the user
Idle == mounted /\ pending = << >>
\* the checkboxes are rendered: part_003 renders them inside the expanded panel
\* only, and renders nothing but a message when the token is missing
ControlsShown == ~isPanelCollapsed /\ ~(variant = "part_003" /\ ~hasToken)
\* a change of a dependency of the initialization effect makes another map
RoomForMap == (hasToken /\ InitDeps # {}) => Len(maps) < MaxMaps

\* onChange of the Counties checkbox
ToggleCounties ==
    /\ Idle /\ RoomForMap /\ ControlsShown
    /\ showCounties' = ~showCounties
    /\ pending' = EffectsOf({"showCounties"}, ~showCounties, showSubstations, riskView)
    /\ UNCHANGED <<variant, server, hasToken, mounted, showSubstations, riskView,
                   mapRef, maps, bboxVars, panelVars>>

\* onChange of the Substations checkbox
ToggleSubstations ==
    /\ Idle /\ RoomForMap /\ ControlsShown
    /\ showSubstations' = ~showSubstations
    /\ pending' = EffectsOf({"showSubstations"}, showCounties, ~showSubstations, riskView)
    /\ UNCHANGED <<variant, server, hasToken, mounted, showCounties, riskView,
                   mapRef, maps, bboxVars, panelVars>>

\* onChange of the Risk View checkbox, rendered only under showSubstations
ToggleRisk ==
    /\ Idle /\ ControlsShown
    /\ showSubstations
    /\ riskView' = ~riskView
    /\ pending' = EffectsOf({"riskView"}, showCounties, showSubstations, ~riskView)
    /\ UNCHANGED <<variant, server, hasToken, mounted, showCounties, showSubstations,
                   mapRef, maps, bboxVars, panelVars>>

\* ls without its first element equal to c
RemoveFirst(ls, c) ==
    IF \E k \in 1..Len(ls) : ls[k] = c
    THEN LET k0 == CHOOSE k \in 1..Len(ls) : ls[k] = c /\ \A j \in 1..(k - 1) : ls[j] # c
         IN [j \in 1..(Len(ls) - 1) |-> IF j < k0 THEN ls[j] ELSE ls[j + 1]]
    ELSE ls

\* return () => { cancelAnimationFrame(rafId); map.off('resize', restoreCenter) }
\* of the resize effect run fx, on the maps ms
ResizeCleanupNoOff(ms, fx) == ms
ResizeCleanup(ms, fx) ==
    IF fx.map = 0 THEN ms
    ELSE [ms EXCEPT ![fx.map].listeners = RemoveFirst(@, fx.captured)]

\* the component is unmounted: the cleanups run
Unmount ==
    /\ Idle
    /\ mounted' = FALSE
    /\ maps' = RunCleanup(ResizeCleanup(maps, resizeFx))
    /\ resizeFx' = NoResize
    /\ mapRef' = IF HasCleanup THEN 0 ELSE mapRef
    /\ UNCHANGED <<variant, server, hasToken, showCounties, showSubstations, riskView,
                   pending, bboxVars, selectedProps, selectedCountyName, isPanelCollapsed>>

\* ----------------------------------------------------- the load handler
\* the map fires "load": the handler starts the three fetches
LoadFires(i) ==
    /\ maps[i].hpc = "created"
    /\ ~maps[i].removed
    /\ maps' = [maps EXCEPT ![i].hpc = "fetching"]
    /\ UNCHANGED <<variant, server, hasToken, mounted, showCounties, showSubstations,
                   riskView, pending, mapRef, bboxVars, panelVars>>

\* await Promise.all([...]) resumes once the three responses have arrived, in
\* the order arrived; a response that is not ok throws
ResponsesArriveAs(i, arrived) ==
    /\ maps[i].hpc = "fetching"
    /\ maps' = [maps EXCEPT ![i].arrived = arrived,
                            ![i].responses = PromiseAll(arrived),
                            ![i].hpc = OkChecks(PromiseAll(arrived))]
    /\ UNCHANGED <<variant, server, hasToken, mounted, showCounties, showSubstations,
                   riskView, pending, mapRef, bboxVars, panelVars>>

\* the responses arrive in the order of their requests
ResponsesArrive(i) == ResponsesArriveAs(i, Fetched)

ExtentIsFinite(e) ==
    \A n \in {e.minX, e.minY, e.maxX, e.maxY} : n.k = "fin"

\* the handler from the last await res.json() to its end, on the map m
\* throws: a call on the map raised (bounds that are not numbers, a removed map)
RestOfHandler(m, throws) ==
    LET countiesBbox == getGeoJSONBBox(Body(m.responses[1]))
        substationsBbox == getGeoJSONBBox(Body(m.responses[2]))
        bbox == ChooseBBox(countiesBbox, substationsBbox)
        m1 == IF bbox # None THEN [m EXCEPT !.fit = bbox] ELSE m
        m2 == [m1 EXCEPT !.usedRemoved = m.removed,
                         !.view = IF bbox # None /\ ~throws THEN "fit" ELSE @]
    IN IF countiesBbox = TypeError \/ substationsBbox = TypeError
       THEN [m EXCEPT !.hpc = "failed"]
       ELSE IF throws THEN [m2 EXCEPT !.hpc = "failed"]
       ELSE AddLayers(m2)

MayThrow(m) ==
    LET countiesBbox == getGeoJSONBBox(Body(m.responses[1]))
        substationsBbox == getGeoJSONBBox(Body(m.responses[2]))
        bbox == ChooseBBox(countiesBbox, substationsBbox)
    IN IF countiesBbox = TypeError \/ substationsBbox = TypeError THEN {FALSE}
       ELSE IF m.removed \/ (bbox # None /\ ~ExtentIsFinite(bbox)) THEN BOOLEAN
       ELSE {FALSE}

\* the three res.json() resume and the handler runs to its end
BodiesParsed(i) ==
    /\ maps[i].hpc = "parsing"
    /\ \E throws \in MayThrow(maps[i]) :
          maps' = [maps EXCEPT ![i] = RestOfHandler(@, throws)]
    /\ UNCHANGED <<variant, server, hasToken, mounted, showCounties, showSubstations,
                   riskView, pending, mapRef, bboxVars, panelVars>>

MapNext ==
    \/ RiskViewEffect
    \/ SyncEffect
    \/ InitEffect
    \/ InitCleanup
    \/ ToggleCounties
    \/ ToggleSubstations
    \/ ToggleRisk
    \/ Unmount
    \/ \E i \in 1..Len(maps) : LoadFires(i)
    \/ \E i \in 1..Len(maps) : ResponsesArrive(i)
    \/ \E i \in 1..Len(maps) : BodiesParsed(i)

SpecMap == MapInit /\ [][MapNext]_vars

\* ------------------------------------------------------------- clicks
\* the features a click can hit: e.features[0] of a layer's click event
NoHit == [t |-> "nohit"]
CountyHits == {Obj("properties", Obj("county", Str(1))),
               Obj("properties", Obj("NAME", Str(2))),
               Obj("properties", EmptyObj)}
SubstationHits == {Obj("properties", Obj("name", Str(3))), Obj("properties", Null)}

\* props.county ?? props.name ?? props.NAME ?? props.county_name ?? null
CountyNameOf(f) ==
    LET props == NullishCoalesce(OptChain(f, "properties"), EmptyObj) IN
    NullishCoalesce(GetProp(props, "county"),
        NullishCoalesce(GetProp(props, "name"),
            NullishCoalesce(GetProp(props, "NAME"),
                NullishCoalesce(GetProp(props, "county_name"), Null))))

\* the selection state as one value
Selection(props, county) == [props |-> props, county |-> county]

\* map.on("click", "counties-fill", ...): part_001 leaves selectedProps alone
CountiesFillClickOnlyName(sel, f) == Selection(sel.props, CountyNameOf(f))
CountiesFillClick(sel, f) ==
    IF variant = "part_001" THEN Selection(sel.props, CountyNameOf(f))
    ELSE Selection(Null, CountyNameOf(f))

\* map.on("click", "substations-points", ...): part_001 leaves
\* selectedCountyName alone
SubstationsPointsClickOnlyProps(sel, f) ==
    Selection(NullishCoalesce(OptChain(f, "properties"), Null), sel.county)
SubstationsPointsClick(sel, f) ==
    IF variant = "part_001"
    THEN Selection(NullishCoalesce(OptChain(f, "properties"), Null), sel.county)
    ELSE Selection(NullishCoalesce(OptChain(f, "properties"), Null), Null)

\* one click on map i that hits the county feature c and the substation
\* feature s (NoHit: none there); the handlers run in the order they were
\* registered, each only for a rendered layer
Click(i, c, s) ==
    /\ Idle
    /\ maps[i].hpc = "loaded"
    /\ ~maps[i].removed
    /\ c # NoHit \/ s # NoHit
    /\ c # NoHit => maps[i].layers["counties-fill"] = "visible"
    /\ s # NoHit => maps[i].layers["substations-points"] = "visible"
    /\ LET sel0 == Selection(selectedProps, selectedCountyName)
           sel1 == IF c # NoHit THEN CountiesFillClick(sel0, c) ELSE sel0
           sel2 == IF s # NoHit THEN SubstationsPointsClick(sel1, s) ELSE sel1
       IN /\ selectedProps' = sel2.props
          /\ selectedCountyName' = sel2.county
    /\ UNCHANGED <<mapVars, bboxVars, isPanelCollapsed, resizeFx>>

SelectNext ==
    \/ MapNext
    \/ \E i \in 1..Len(maps) :
          \E c \in CountyHits \cup {NoHit}, s \in SubstationHits \cup {NoHit} : Click(i, c, s)

SpecSelect == MapInit /\ [][SelectNext]_vars

\* ----------------------------------------------- the completion order
\* every order in which the three responses can arrive
ArrivalOrders ==
    {o \in [1..Len(Fetched) -> {Fetched[p] : p \in 1..Len(Fetched)}] :
        \A p, q \in 1..Len(Fetched) : p # q => o[p] # o[q]}

\* the component from its mount to its unmount with no checkbox touched, the
\* three responses arriving in any order
FetchNext ==
    \/ RiskViewEffect
    \/ SyncEffect
    \/ InitEffect
    \/ Unmount
    \/ \E i \in 1..Len(maps) : LoadFires(i)
    \/ \E i \in 1..Len(maps) : \E arrived \in ArrivalOrders : ResponsesArriveAs(i, arrived)
    \/ \E i \in 1..Len(maps) : BodiesParsed(i)

SpecFetch == MapInit /\ [][FetchNext]_vars

\* ------------------------------------------------------------ part_001
\* the first render of the MapView of part_001
Part001Init ==
    /\ NoBBoxCall
    /\ PanelInit
    /\ variant = "part_001"
    /\ server \in Servers
    /\ hasToken \in BOOLEAN
    /\ mounted = TRUE
    /\ showCounties = TRUE
    /\ showSubstations = TRUE
    /\ riskView = FALSE
    /\ pending = <<Effect("risk", TRUE, TRUE, FALSE), Effect("sync", TRUE, TRUE, FALSE),
                   Effect("init", TRUE, TRUE, FALSE)>>
    /\ mapRef = 0
    /\ maps = << >>

\* its initialization effect has no dependency: the cleanup runs on unmount only
Part001Next ==
    \/ RiskViewEffect
    \/ SyncEffect
    \/ InitEffect
    \/ ToggleCounties
    \/ ToggleSubstations
    \/ ToggleRisk
    \/ Unmount
    \/ \E i \in 1..Len(maps) : LoadFires(i)
    \/ \E i \in 1..Len(maps) : ResponsesArrive(i)
    \/ \E i \in 1..Len(maps) : BodiesParsed(i)

SpecPart001 == Part001Init /\ [][Part001Next]_vars

\* ------------------------------------------------- the panel, part_003
\* what the fetches answer in the runs that collapse and expand the panel
PanelServers ==
    {sv \in Servers :
        /\ sv.failed = "none"
        /\ sv.counties \in {DocNone, DocA}
        /\ sv.substations = DocNone
        /\ sv.lines = DocNone}

\* the first render of part_003: the resize effect is the second effect
PanelMapInit ==
    /\ NoBBoxCall
    /\ PanelInit
    /\ variant = "part_003"
    /\ server \in PanelServers
    /\ hasToken \in BOOLEAN
    /\ mounted = TRUE
    /\ showCounties = TRUE
    /\ showSubstations = TRUE
    /\ riskView = FALSE
    /\ pending = <<Effect("risk", TRUE, TRUE, FALSE), Effect("resize", TRUE, TRUE, FALSE),
                   Effect("sync", TRUE, TRUE, FALSE), Effect("init", TRUE, TRUE, FALSE)>>
    /\ mapRef = 0
    /\ maps = << >>

\* onClick of the collapse button and of the expand button
TogglePanel ==
    /\ Idle
    /\ variant = "part_003" /\ hasToken
    /\ isPanelCollapsed' = ~isPanelCollapsed
    /\ pending' = EffectsOf({"isPanelCollapsed"}, showCounties, showSubstations, riskView)
    /\ UNCHANGED <<variant, server, hasToken, mounted, showCounties, showSubstations,
                   riskView, mapRef, maps, bboxVars, selectedProps, selectedCountyName,
                   resizeFx>>

\* the cleanup of the previous run of the resize effect
ResizeCleanupEffect ==
    /\ NextEffect("resizeCleanup")
    /\ maps' = ResizeCleanup(maps, resizeFx)
    /\ resizeFx' = NoResize
    /\ pending' = Tail(pending)
    /\ UNCHANGED <<variant, server, hasToken, mounted, showCounties, showSubstations,
                   riskView, mapRef, bboxVars, selectedProps, selectedCountyName,
                   isPanelCollapsed>>

\* the resize effect: capture the view, map.once('resize', restoreCenter),
\* requestAnimationFrame(() => map.resize())
ResizeEffect ==
    /\ NextEffect("resize")
    /\ IF mapRef = 0
       THEN /\ resizeFx' = NoResize
            /\ UNCHANGED maps
       ELSE /\ resizeFx' = [map |-> mapRef, captured |-> maps[mapRef].view, raf |-> "scheduled"]
            /\ maps' = [maps EXCEPT ![mapRef].listeners = Append(@, maps[mapRef].view)]
    /\ pending' = Tail(pending)
    /\ UNCHANGED <<variant, server, hasToken, mounted, showCounties, showSubstations,
                   riskView, mapRef, bboxVars, selectedProps, selectedCountyName,
                   isPanelCollapsed>>

\* the map fires 'resize': every restoreCenter registered with once runs
\* jumpTo with the view it captured and is gone
FireResize(m) ==
    IF m.listeners = << >> THEN m
    ELSE [m EXCEPT !.view = m.listeners[Len(m.listeners)], !.listeners = << >>]

\* the animation frame: map.resize(); on a removed map the call may raise
\* before the event is fired
RafFires ==
    /\ resizeFx.raf = "scheduled"
    /\ \E throws \in (IF maps[resizeFx.map].removed THEN BOOLEAN ELSE {FALSE}) :
          maps' = [maps EXCEPT ![resizeFx.map] =
                      IF throws THEN [@ EXCEPT !.usedRemoved = TRUE]
                      ELSE FireResize([@ EXCEPT !.usedRemoved = @ \/ maps[resizeFx.map].removed])]
    /\ resizeFx' = [resizeFx EXCEPT !.raf = "fired"]
    /\ UNCHANGED <<variant, server, hasToken, mounted, showCounties, showSubstations,
                   riskView, pending, mapRef, bboxVars, selectedProps, selectedCountyName,
                   isPanelCollapsed>>

\* the window is resized: the map, created with trackResize left on, resizes
\* itself and fires 'resize'
WindowResize(i) ==
    /\ ~maps[i].removed
    /\ maps[i].listeners # << >>
    /\ maps' = [maps EXCEPT ![i] = FireResize(@)]
    /\ UNCHANGED <<variant, server, hasToken, mounted, showCounties, showSubstations,
                   riskView, pending, mapRef, bboxVars, panelVars>>

\* the user drags or zooms the map
UserMoves(i) ==
    /\ mounted /\ pending = << >>
    /\ ~maps[i].removed
    /\ maps[i].view # "moved"
    /\ maps' = [maps EXCEPT ![i].view = "moved"]
    /\ UNCHANGED <<variant, server, hasToken, mounted, showCounties, showSubstations,
                   riskView, pending, mapRef, bboxVars, panelVars>>

\* the component with its panel buttons and its Counties checkbox, whose
\* toggle makes part_003 create its map again
PanelNext ==
    \/ RiskViewEffect
    \/ SyncEffect
    \/ InitEffect
    \/ InitCleanup
    \/ ToggleCounties
    \/ Unmount
    \/ \E i \in 1..Len(maps) : LoadFires(i)
    \/ \E i \in 1..Len(maps) : ResponsesArrive(i)
    \/ \E i \in 1..Len(maps) : BodiesParsed(i)
    \/ TogglePanel
    \/ ResizeCleanupEffect
    \/ ResizeEffect
    \/ RafFires
    \/ \E i \in 1..Len(maps) : WindowResize(i)
    \/ \E i \in 1..Len(maps) : UserMoves(i)

SpecPanel == PanelMapInit /\ [][PanelNext]_vars

\* ------------------------------------------------------- MapView claims
CountiesBbox == getGeoJSONBBox(server.counties)
SubstationsBbox == getGeoJSONBBox(server.substations)
LinesBbox == getGeoJSONBBox(server.lines)
\* the handler of map i got the three documents and ran to its end or threw
HandlerEnded(i) == server.failed = "none" /\ maps[i].hpc \in {"loaded", "failed"}
\* the current map has its layers and no effect is waiting
Settled == mounted /\ pending = << >> /\ mapRef # 0 /\ maps[mapRef].hpc = "loaded"

\* C15: whenever the load handler calls fitBounds, the bounds are the counties
\* extent if the counties document has one, else the substations extent; the
\* two extents are never merged.
C15_PrefersCounties ==
    \A i \in 1..Len(maps) :
        maps[i].fit # NoFit =>
            maps[i].fit = IF CountiesBbox # None THEN CountiesBbox ELSE SubstationsBbox

C15_Witness ==
    \E i \in 1..Len(maps) :
        /\ maps[i].fit = CountiesBbox
        /\ SubstationsBbox.kind = "extent"
        /\ SubstationsBbox # CountiesBbox

C17_VisibilityFollowsToggles ==
    Settled =>
        /\ maps[mapRef].layers["counties-fill"] = Visibility(showCounties)
        /\ maps[mapRef].layers["counties-outline"] = Visibility(showCounties)
        /\ maps[mapRef].layers["substations-points"] = Visibility(showSubstations)
        /\ maps[mapRef].layers["substations-glow"] = Visibility(showSubstations)

\* C18: once the current map has its layers and no effect is waiting, the main
\* circle's radius, colour and opacity and the glow's radius and opacity are
\* the risk paint exactly when riskView holds, and the default paint otherwise.
C18_RiskPaintIffRiskView ==
    Settled =>
        LET p == maps[mapRef].paint
            r == RiskPaint(SUBSTATION_DEFAULT)
        IN IF riskView
           THEN /\ p.radius = r.radius
                /\ p.color = r.color
                /\ p.opacity = r.opacity
                /\ p.glowRadius = r.glowRadius
                /\ p.glowOpacity = r.glowOpacity
           ELSE p = SUBSTATION_DEFAULT

C20_InitRunsOnce ==
    (variant = "part_003" /\ mounted) =>
        /\ Len(maps) <= 1
        /\ \A i \in 1..Len(maps) : ~maps[i].removed

\* C21: in part_003, selectedProps and selectedCountyName are never both
\* non-null, whatever clicks on counties and on substations were made, a click
\* that hits both a county and a substation included.
C21_SelectionExclusive ==
    variant = "part_003" => (selectedProps = Null \/ selectedCountyName = Null)

\* a substation is selected in part_003 with the county layer clickable
C21_Witness ==
    /\ variant = "part_003"
    /\ selectedProps # Null
    /\ selectedCountyName = Null
    /\ mapRef # 0
    /\ maps[mapRef].layers["counties-fill"] = "visible"

\* C22: when one of the three responses is not ok, the handler of no map calls
\* fitBounds, adds a source or a layer, or gets as far as registering a click
\* handler.
C22_NotOkNoSideEffect ==
    server.failed # "none" =>
        \A i \in 1..Len(maps) :
            /\ maps[i].fit = NoFit
            /\ maps[i].sources = NoSources
            /\ \A l \in LayerIds : maps[i].layers[l] = "absent"
            /\ maps[i].hpc # "loaded"

C22_Witness ==
    /\ server.failed # "none"
    /\ \E i \in 1..Len(maps) : maps[i].hpc = "failed"

\* the maps that were created and not removed
LiveMaps == {i \in 1..Len(maps) : ~maps[i].removed}

\* C23: at most one map is live and mapRef refers to it: mapRef is null exactly
\* when no map is live, and after unmount every map is removed and mapRef is
\* null.
C23_OneLiveMap ==
    /\ Cardinality(LiveMaps) <= 1
    /\ mapRef # 0 => mapRef \in LiveMaps
    /\ LiveMaps # {} => mapRef \in LiveMaps
    /\ ~mounted => (LiveMaps = {} /\ mapRef = 0)

C23_Witness ==
    /\ ~mounted
    /\ maps # << >>
    /\ mapRef = 0
    /\ \A i \in 1..Len(maps) : maps[i].removed

\* C24: no method of a map is called after map.remove() of that map.
C24_NoCallAfterRemove ==
    \A i \in 1..Len(maps) : ~maps[i].usedRemoved

\* the sync effect of a render with riskView off is next, on the loaded map
\* that carries the risk paint put on the paint the layers were added with
C25_OffAfterOn ==
    /\ variant = "MapView.tsx"
    /\ NextEffect("sync")
    /\ ~Head(pending).rv
    /\ mapRef # 0
    /\ maps[mapRef].hpc = "loaded"
    /\ maps[mapRef].paint = RiskPaint(AddedPaint)

\* C25: in src/src/MapView.tsx, when the sync effect runs for risk view off
\* on layers that carry the risk paint, every paint property of
\* substations-points and substations-glow is afterwards what addLayer gave it.
C25_RiskRoundTrip ==
    [][(C25_OffAfterOn /\ pending' = Tail(pending)) => maps'[mapRef].paint = AddedPaint]_vars

C25_Witness == C25_OffAfterOn /\ riskView = FALSE /\ pending = <<Head(pending)>>

\* what the handler does with the bounds when every document is bound to its
\* own URL
C27_FitOfServer ==
    IF CountiesBbox = TypeError \/ SubstationsBbox = TypeError THEN NoFit
    ELSE IF CountiesBbox # None THEN CountiesBbox
    ELSE IF SubstationsBbox # None THEN SubstationsBbox
    ELSE NoFit

\* C27: whatever the order the three responses arrived in, each of the three
\* sources is given the body of its own URL, and the bounds given to fitBounds
\* are those of the counties and substations bodies.
C27_BoundByPosition ==
    \A i \in 1..Len(maps) :
        /\ maps[i].hpc = "loaded" =>
              /\ maps[i].sources["counties"] = server.counties
              /\ maps[i].sources["substations"] = server.substations
              /\ maps[i].sources["transmission-lines"] = server.lines
        /\ HandlerEnded(i) => maps[i].fit = C27_FitOfServer

\* the lines response came first and the counties response last
C27_Witness ==
    \E i \in 1..Len(maps) :
        /\ maps[i].hpc = "loaded"
        /\ maps[i].arrived = <<"lines", "substations", "counties">>
        /\ server.counties # server.lines
        /\ server.counties # server.substations
        /\ maps[i].fit = CountiesBbox

\* the current map once the sync effect scheduled by this step has run
C26_AfterSync ==
    ApplyUiState(maps[mapRef], Head(pending').sc, Head(pending').ss, Head(pending').rv)

\* C26: in part_001, a toggle of the counties checkbox with the layers loaded,
\* and the one effect it schedules, leave the visibility and the paint of
\* substations-points and substations-glow as they were.
C26_CountiesToggleFrame ==
    [][(/\ variant = "part_001"
        /\ showCounties' # showCounties
        /\ mapRef # 0
        /\ maps[mapRef].hpc = "loaded"
        /\ pending' = <<Effect("sync", showCounties', showSubstations, riskView)>>)
       => /\ C26_AfterSync.paint = maps[mapRef].paint
          /\ C26_AfterSync.layers["substations-points"] = maps[mapRef].layers["substations-points"]
          /\ C26_AfterSync.layers["substations-glow"] = maps[mapRef].layers["substations-glow"]
          /\ C26_AfterSync.layers["transmission-lines"] = maps[mapRef].layers["transmission-lines"]]_vars

\* at most one restoreCenter listener is registered on a map
C28_OneListener == \A i \in 1..Len(maps) : Len(maps[i].listeners) <= 1

\* C28 as stated: at most one restoreCenter listener is registered at any
\* time, and when the scheduled resize fires the view of its map is the view
\* the latest run of the resize effect captured.
C28_ViewAfterScheduledResize ==
    /\ []C28_OneListener
    /\ [][(resizeFx.raf = "scheduled" /\ resizeFx'.raf = "fired")
            => maps'[resizeFx.map].view = resizeFx.captured]_vars

\* the only listener registered is the one of the latest run of the effect
C28_LatestListener ==
    \A i \in 1..Len(maps) :
        maps[i].listeners # << >> =>
            (resizeFx.map = i /\ maps[i].listeners = <<resizeFx.captured>>)

\* C28: at most one restoreCenter listener is registered at any time, that of
\* the latest run of the resize effect, and the first 'resize' a map fires
\* while it is registered, scheduled or not, sets the view to the view that
\* run captured.
C28_RestoredAtFirstResize ==
    /\ [](C28_OneListener /\ C28_LatestListener)
    /\ [][\A i \in 1..Len(maps) :
            (/\ maps[i].listeners # << >>
             /\ pending' = pending
             /\ mounted' = mounted
             /\ maps'[i].listeners = << >>)
            => maps'[i].view = resizeFx.captured]_vars

\* the panel is collapsed, the scheduled resize has fired on the live map and
\* has put back the view that fitBounds had set
C28_Witness ==
    /\ isPanelCollapsed
    /\ resizeFx.raf = "fired"
    /\ resizeFx.map = mapRef
    /\ mapRef # 0
    /\ resizeFx.captured = "fit"
    /\ maps[mapRef].view = "fit"
    /\ maps[mapRef].listeners = << >>

====
